---- MODULE Spec2Model ----
(***************************************************************************)
(* Model of the openvox vector-math operation set (VectorMath.hpp) and of  *)
(* the throwing assertion (VGDAssert.hpp).                                 *)
(*                                                                         *)
(* The component type T of the floating-point operations is modelled as a  *)
(* binary IEC 559 format with Prec significand bits and exponents          *)
(* -ERange..ERange: round-to-nearest-even, gradual underflow, overflow to  *)
(* infinity, NaN.  A finite value is the integer count of units            *)
(* 2^(-ERange-Prec+1) (the smallest subnormal); zero is unsigned.          *)
(***************************************************************************)
EXTENDS Integers, Sequences, FiniteSets, TLC

\* ---------------------------------------------------------------- bounds
Prec == 8
ERange == 4
MaxInt == 4
MaxNat3 == 1
MaxNat4 == 1
MaxInst == 2
MaxLine == 11
MaxEvals == 1
TolEps == 8

\* ------------------------------------------------- the component type T
K == ERange + Prec - 1
One == 2^K
MaxN == (2^Prec - 1) * 2^(2 * ERange)
MinNormal == 2^(Prec - 1)
PInf == MaxN + 1
NInf == -PInf
NaN == MaxN + 2

IsNaN(x) == x = NaN
IsInf(x) == x = PInf \/ x = NInf
IsFinite(x) == ~IsNaN(x) /\ ~IsInf(x)
Abs(i) == IF i < 0 THEN -i ELSE i
Sgn(i) == IF i < 0 THEN -1 ELSE 1

RECURSIVE BitLen(_)
BitLen(m) == IF m = 0 THEN 0 ELSE 1 + BitLen(m \div 2)

\* m * 2^t units, m >= 0, rounded to the format: nearest, ties to even.
RoundMag(m, t) ==
    IF m = 0 THEN 0
    ELSE LET len == BitLen(m)
             top == len + t
             g == IF top > Prec THEN top - Prec ELSE 0
             sh == g - t
         IN IF top > Prec + 2 * ERange + 1 THEN PInf
            ELSE IF sh <= 0
                 THEN LET n == m * 2^t IN IF n > MaxN THEN PInf ELSE n
            ELSE IF sh > len + 1 THEN 0
            ELSE LET d == 2^sh
                     q == m \div d
                     r == m % d
                     h == d \div 2
                     q2 == IF r > h \/ (r = h /\ q % 2 = 1) THEN q + 1 ELSE q
                     n == q2 * 2^g
                 IN IF n > MaxN THEN PInf ELSE n

\* a > 0 finite: a = Mant(a) * 2^Expo(a) with Mant(a) of exactly Prec bits.
Expo(a) == BitLen(a) - Prec
Mant(a) == IF Expo(a) >= 0 THEN a \div 2^Expo(a) ELSE a * 2^(-Expo(a))

FNeg(x) == IF IsNaN(x) THEN NaN ELSE -x

FMul(x, y) ==
    IF IsNaN(x) \/ IsNaN(y) THEN NaN
    ELSE IF IsInf(x) \/ IsInf(y)
         THEN IF x = 0 \/ y = 0 THEN NaN ELSE Sgn(x) * Sgn(y) * PInf
    ELSE IF x = 0 \/ y = 0 THEN 0
    ELSE LET a == Abs(x)
             b == Abs(y)
         IN Sgn(x) * Sgn(y) * RoundMag(Mant(a) * Mant(b), Expo(a) + Expo(b) - K)

FAdd(x, y) ==
    IF IsNaN(x) \/ IsNaN(y) THEN NaN
    ELSE IF IsInf(x) THEN (IF IsInf(y) /\ y # x THEN NaN ELSE x)
    ELSE IF IsInf(y) THEN y
    ELSE LET s == x + y IN Sgn(s) * RoundMag(Abs(s), 0)

FSub(x, y) == FAdd(x, FNeg(y))

FDiv(x, y) ==
    IF IsNaN(x) \/ IsNaN(y) THEN NaN
    ELSE IF IsInf(x) THEN (IF IsInf(y) THEN NaN ELSE Sgn(x) * Sgn(y) * PInf)
    ELSE IF IsInf(y) THEN 0
    ELSE IF y = 0 THEN (IF x = 0 THEN NaN ELSE Sgn(x) * PInf)
    ELSE IF x = 0 THEN 0
    ELSE LET a == Abs(x)
             b == Abs(y)
             num == Mant(a) * 2^(Prec + 2)
             q == num \div Mant(b)
             sticky == IF num % Mant(b) = 0 THEN 0 ELSE 1
         IN Sgn(x) * Sgn(y)
              * RoundMag(2 * q + sticky, Expo(a) - Expo(b) + K - (Prec + 3))

RECURSIVE ISqrtIter(_, _, _)
ISqrtIter(x, r, bit) ==
    IF bit = 0 THEN r
    ELSE IF (r + bit) * (r + bit) <= x THEN ISqrtIter(x, r + bit, bit \div 2)
    ELSE ISqrtIter(x, r, bit \div 2)
ISqrt(x) == ISqrtIter(x, 0, 2^(Prec + 4))

FSqrt(x) ==
    IF IsNaN(x) \/ x < 0 THEN NaN
    ELSE IF x = 0 \/ x = PInf THEN x
    ELSE LET e == Expo(x) - K
             odd == e % 2 = 1
             m2 == IF odd THEN 2 * Mant(x) ELSE Mant(x)
             e2 == IF odd THEN e - 1 ELSE e
             j == Prec \div 2 + 2
             big == m2 * 2^(2 * j)
             r == ISqrt(big)
             sticky == IF r * r = big THEN 0 ELSE 1
         IN RoundMag(2 * r + sticky, e2 \div 2 - j - 1 + K)

FFloor(x) == IF IsFinite(x) THEN (x \div One) * One ELSE x

\* The comparisons of T: every comparison with NaN is false.
FLt(x, y) == ~IsNaN(x) /\ ~IsNaN(y) /\ x < y
FLe(x, y) == ~IsNaN(x) /\ ~IsNaN(y) /\ x <= y

\* Neighbours of a finite x > 0 in the format (one unit in the last place).
Ulp(x) == IF BitLen(x) > Prec THEN 2^(BitLen(x) - Prec) ELSE 1

\* ------------------------------------------------ external collaborators
\* The vector containers: named components, broadcast multiply and divide.
Vector2(x, y) == [x |-> x, y |-> y]
Vector3(x, y, z) == [x |-> x, y |-> y, z |-> z]
Vector4(x, y, z, w) == [x |-> x, y |-> y, z |-> z, w |-> w]
Dim(v) == Cardinality(DOMAIN v)
VecDiv(v, s) == [f \in DOMAIN v |-> FDiv(v[f], s)]
VecMul(v, s) == [f \in DOMAIN v |-> FMul(v[f], s)]

\* The scalar primitives of openvox::math.
sqrt(x) == FSqrt(x)
scalar_min(x, y) == IF FLt(y, x) THEN y ELSE x
scalar_max(x, y) == IF FLt(x, y) THEN y ELSE x
scalar_clamp(x, minVal, maxVal) == scalar_min(scalar_max(x, minVal), maxVal)
scalar_mod(x, y) == FSub(x, FMul(y, FFloor(FDiv(x, y))))
\* fastInverseSqrt approximates 1/sqrt(x): any value within one unit in the
\* last place of the rounded quotient.
fastInverseSqrt(x) ==
    LET r == FDiv(One, FSqrt(x))
    IN IF IsFinite(r) /\ r > 1 /\ r < MaxN
       THEN {r - Ulp(r - 1), r, r + Ulp(r)}
       ELSE {r}

\* ------------------------------------------------------- VectorMath.hpp
dot2(v1, v2) == FAdd(FMul(v1.x, v2.x), FMul(v1.y, v2.y))
dot3(v1, v2) == FAdd(FAdd(FMul(v1.x, v2.x), FMul(v1.y, v2.y)), FMul(v1.z, v2.z))
\* Faulty variant: the last product pairs w with z.
dot4_WrongIndex(v1, v2) ==
    FAdd(FAdd(FAdd(FMul(v1.x, v2.x), FMul(v1.y, v2.y)), FMul(v1.z, v2.z)),
         FMul(v1.w, v2.z))
dot4(v1, v2) ==
    FAdd(FAdd(FAdd(FMul(v1.x, v2.x), FMul(v1.y, v2.y)), FMul(v1.z, v2.z)),
         FMul(v1.w, v2.w))
dot(v1, v2) ==
    IF Dim(v1) = 2 THEN dot2(v1, v2)
    ELSE IF Dim(v1) = 3 THEN dot3(v1, v2) ELSE dot4(v1, v2)

lengthSquared2(v) == FAdd(FMul(v.x, v.x), FMul(v.y, v.y))
\* Faulty variant: the z term is left out.
lengthSquared3_NoZ(v) == FAdd(FMul(v.x, v.x), FMul(v.y, v.y))
lengthSquared3(v) == FAdd(FAdd(FMul(v.x, v.x), FMul(v.y, v.y)), FMul(v.z, v.z))
lengthSquared4(v) ==
    FAdd(FAdd(FAdd(FMul(v.x, v.x), FMul(v.y, v.y)), FMul(v.z, v.z)),
         FMul(v.w, v.w))
lengthSquared(v) ==
    IF Dim(v) = 2 THEN lengthSquared2(v)
    ELSE IF Dim(v) = 3 THEN lengthSquared3(v) ELSE lengthSquared4(v)

length2(v) == sqrt(FAdd(FMul(v.x, v.x), FMul(v.y, v.y)))
length3(v) == sqrt(FAdd(FAdd(FMul(v.x, v.x), FMul(v.y, v.y)), FMul(v.z, v.z)))
length4(v) ==
    sqrt(FAdd(FAdd(FAdd(FMul(v.x, v.x), FMul(v.y, v.y)), FMul(v.z, v.z)),
              FMul(v.w, v.w)))
length(v) ==
    IF Dim(v) = 2 THEN length2(v)
    ELSE IF Dim(v) = 3 THEN length3(v) ELSE length4(v)

\* Faulty variant: the first component reads v2.z twice.
cross_WrongIndex(v1, v2) ==
    Vector3(FSub(FMul(v1.y, v2.z), FMul(v1.z, v2.z)),
            FSub(FMul(v1.z, v2.x), FMul(v1.x, v2.z)),
            FSub(FMul(v1.x, v2.y), FMul(v1.y, v2.x)))

cross(v1, v2) ==
    Vector3(FSub(FMul(v1.y, v2.z), FMul(v1.z, v2.y)),
            FSub(FMul(v1.z, v2.x), FMul(v1.x, v2.z)),
            FSub(FMul(v1.x, v2.y), FMul(v1.y, v2.x)))

\* The set of results normalize can return: one in accurate mode, those of
\* the approximation under OPENVOX_MATH_FAST.
normalize2(v, fast) ==
    IF fast THEN {VecMul(v, s) : s \in fastInverseSqrt(lengthSquared2(v))}
    ELSE {VecDiv(v, length2(v))}
normalize3(v, fast) ==
    IF fast THEN {VecMul(v, s) : s \in fastInverseSqrt(lengthSquared3(v))}
    ELSE {VecDiv(v, length3(v))}
\* Faulty variant: accurate mode divides by the squared length.
normalize4_NoSqrt(v, fast) ==
    IF fast THEN {VecMul(v, s) : s \in fastInverseSqrt(lengthSquared4(v))}
    ELSE {VecDiv(v, lengthSquared4(v))}
normalize4(v, fast) ==
    IF fast THEN {VecMul(v, s) : s \in fastInverseSqrt(lengthSquared4(v))}
    ELSE {VecDiv(v, length4(v))}
normalize(v, fast) ==
    IF Dim(v) = 2 THEN normalize2(v, fast)
    ELSE IF Dim(v) = 3 THEN normalize3(v, fast) ELSE normalize4(v, fast)

mod2(v, a) == Vector2(scalar_mod(v.x, a), scalar_mod(v.y, a))
mod3(v, a) == Vector3(scalar_mod(v.x, a), scalar_mod(v.y, a), scalar_mod(v.z, a))
\* Faulty variant: the w component is computed from z.
mod4_WrongComp(v, a) ==
    Vector4(scalar_mod(v.x, a), scalar_mod(v.y, a), scalar_mod(v.z, a),
            scalar_mod(v.z, a))
mod4(v, a) ==
    Vector4(scalar_mod(v.x, a), scalar_mod(v.y, a), scalar_mod(v.z, a),
            scalar_mod(v.w, a))
mod(v, a) ==
    IF Dim(v) = 2 THEN mod2(v, a)
    ELSE IF Dim(v) = 3 THEN mod3(v, a) ELSE mod4(v, a)

min2(v1, v2) == Vector2(scalar_min(v1.x, v2.x), scalar_min(v1.y, v2.y))
min3(v1, v2) ==
    Vector3(scalar_min(v1.x, v2.x), scalar_min(v1.y, v2.y), scalar_min(v1.z, v2.z))
min4(v1, v2) ==
    Vector4(scalar_min(v1.x, v2.x), scalar_min(v1.y, v2.y), scalar_min(v1.z, v2.z),
            scalar_min(v1.w, v2.w))
min(v1, v2) ==
    IF Dim(v1) = 2 THEN min2(v1, v2)
    ELSE IF Dim(v1) = 3 THEN min3(v1, v2) ELSE min4(v1, v2)

max2(v1, v2) == Vector2(scalar_max(v1.x, v2.x), scalar_max(v1.y, v2.y))
\* Faulty variant: the z component is copied from min.
max3_MinZ(v1, v2) ==
    Vector3(scalar_max(v1.x, v2.x), scalar_max(v1.y, v2.y), scalar_min(v1.z, v2.z))
max3(v1, v2) ==
    Vector3(scalar_max(v1.x, v2.x), scalar_max(v1.y, v2.y), scalar_max(v1.z, v2.z))
max4(v1, v2) ==
    Vector4(scalar_max(v1.x, v2.x), scalar_max(v1.y, v2.y), scalar_max(v1.z, v2.z),
            scalar_max(v1.w, v2.w))
max(v1, v2) ==
    IF Dim(v1) = 2 THEN max2(v1, v2)
    ELSE IF Dim(v1) = 3 THEN max3(v1, v2) ELSE max4(v1, v2)

clamp2(v, minVal, maxVal) ==
    Vector2(scalar_clamp(v.x, minVal, maxVal), scalar_clamp(v.y, minVal, maxVal))
\* Faulty variant: the z component is passed through unclamped.
clamp3_NoZ(v, minVal, maxVal) ==
    Vector3(scalar_clamp(v.x, minVal, maxVal), scalar_clamp(v.y, minVal, maxVal), v.z)
clamp3(v, minVal, maxVal) ==
    Vector3(scalar_clamp(v.x, minVal, maxVal), scalar_clamp(v.y, minVal, maxVal),
            scalar_clamp(v.z, minVal, maxVal))
clamp4(v, minVal, maxVal) ==
    Vector4(scalar_clamp(v.x, minVal, maxVal), scalar_clamp(v.y, minVal, maxVal),
            scalar_clamp(v.z, minVal, maxVal), scalar_clamp(v.w, minVal, maxVal))
clamp(v, minVal, maxVal) ==
    IF Dim(v) = 2 THEN clamp2(v, minVal, maxVal)
    ELSE IF Dim(v) = 3 THEN clamp3(v, minVal, maxVal) ELSE clamp4(v, minVal, maxVal)

\* ------------------------------------------------------------ the inputs
Whole(i) == i * One
Third == FDiv(One, Whole(3))
Extremes == {1, MinNormal, MaxN, Third, FDiv(Whole(12), Whole(7))}
Specials == {PInf, NInf, NaN}
Wide == {Whole(i) : i \in -1..MaxInt} \cup Extremes \cup Specials
Mid == {Whole(i) : i \in 0..MaxNat3} \cup {FNeg(Third), NaN, MaxN}
Narrow == {Whole(i) : i \in 0..MaxNat4} \cup {NaN}
Vec(n, S) ==
    IF n = 2 THEN {Vector2(x, y) : x \in S, y \in S}
    ELSE IF n = 3 THEN {Vector3(x, y, z) : x \in S, y \in S, z \in S}
    ELSE {Vector4(x, y, z, w) : x \in S, y \in S, z \in S, w \in S}
Arity == {2, 3, 4}
\* One operand: every arity over the wide sample.
Vec1 == UNION {Vec(n, Wide) : n \in Arity}
\* Two operands of one arity: the sample narrows as the arity grows.
Dom(n) == IF n = 2 THEN Wide ELSE IF n = 3 THEN Mid ELSE Narrow
ModDom(n) == Dom(n) \cup {Whole(5), Whole(7), Whole(9)}
Divisors == {Whole(3), Whole(-2), 0, Third, NaN, PInf}
ClampDom(n) == Dom(n) \cup {Whole(3), Whole(5)}
ClampBounds(n) == Dom(n) \cup {Whole(3)}

\* ------------------------------------------------------------ the build
\* Component types a translation unit may instantiate the templates with.
Types == {"float", "double", "int"}
is_iec559(T) == T \in {"float", "double"}
\* openvox::math::sqrt and fastInverseSqrt take floating-point types only.
sqrt_accepts(T) == is_iec559(T)
fastInverseSqrt_accepts(T) == is_iec559(T)
Templates ==
    {"dot", "length", "lengthSquared", "normalize"} \X Arity \cup {<<"cross", 3>>}
Instantiations == {<<t[1], t[2], T>> : t \in Templates, T \in Types}
\* Faulty variant: the four-component dot has no static_assert.
WellFormed_NoAssertDot4(i, fast) ==
    LET name == i[1]
        n == i[2]
        T == i[3]
    IN CASE name = "dot" /\ n = 4 -> TRUE
         [] name \in {"dot", "cross"} -> is_iec559(T)
         [] name = "length" -> sqrt_accepts(T)
         [] name = "lengthSquared" -> TRUE
         [] name = "normalize" ->
              IF fast THEN fastInverseSqrt_accepts(T) ELSE sqrt_accepts(T)

\* Whether the instantiation <<name, arity, T>> compiles: its static_assert
\* and those of what its body instantiates.
WellFormed(i, fast) ==
    LET name == i[1]
        n == i[2]
        T == i[3]
    IN CASE name = "dot" /\ n = 2 -> is_iec559(T)
         [] name = "dot" /\ n = 3 -> is_iec559(T)
         [] name = "dot" /\ n = 4 -> is_iec559(T)
         [] name = "cross" -> is_iec559(T)
         [] name = "length" -> sqrt_accepts(T)
         [] name = "lengthSquared" -> TRUE
         [] name = "normalize" ->
              IF fast THEN fastInverseSqrt_accepts(T) ELSE sqrt_accepts(T)

\* ----------------------------------------------------------- VGDAssert.hpp
\* Faulty variant: the line number is left out of the report.
Report_NoLine(expression, file, line, message) ==
    (IF message # "" THEN message \o ": " ELSE "")
    \o (IF expression = "false" \/ expression = "0"
        THEN "Unreachable code assertion"
        ELSE "Assertion '" \o expression \o "'")
    \o " failed in file '" \o file \o "'"

\* The report AssertionFailureException's constructor builds.
Report(expression, file, line, message) ==
    (IF message # "" THEN message \o ": " ELSE "")
    \o (IF expression = "false" \/ expression = "0"
        THEN "Unreachable code assertion"
        ELSE "Assertion '" \o expression \o "'")
    \o " failed in file '" \o file \o "' line " \o ToString(line)

\* Expression texts with the values each can take, messages, locations.
Expressions ==
    {<<"false", FALSE>>, <<"0", FALSE>>, <<"x > 0", FALSE>>, <<"x > 0", TRUE>>,
     <<"ptr", FALSE>>, <<"ptr", TRUE>>, <<"true", TRUE>>}
Messages == {"", "bad x", "0"}
Files == {"a.cpp", "false.hpp"}
Lines == {MaxLine - 1, MaxLine}

VARIABLES op, fastMath, x1, x2, s1, s2, resS, resV,
          insts, phase, ran,
          ndebug, pc, expr, cond, msg, file, line, evals, cerr, report, what

vecVars == <<op, x1, x2, s1, s2, resS, resV>>
buildVars == <<insts, phase, ran>>
assertVars == <<ndebug, pc, expr, cond, msg, file, line, evals, cerr, report, what>>
vars == <<vecVars, fastMath, buildVars, assertVars>>

NoVec == [x |-> 0]

VecIdle ==
    op = "none" /\ x1 = NoVec /\ x2 = NoVec /\ s1 = 0 /\ s2 = 0 /\ resS = 0 /\ resV = NoVec
BuildIdle == insts = {} /\ phase = "compiling" /\ ran = {}
AssertIdle ==
    /\ pc = "idle" /\ expr = "" /\ cond = TRUE /\ msg = "" /\ file = "" /\ line = 0
    /\ evals = 0 /\ cerr = <<>> /\ report = "" /\ what = ""

\* The state before any call; the build defines OPENVOX_MATH_FAST and NDEBUG
\* or does not.
Init ==
    /\ fastMath \in BOOLEAN
    /\ ndebug \in BOOLEAN
    /\ VecIdle /\ BuildIdle /\ AssertIdle
\* The default build: OPENVOX_MATH_FAST is not defined.
InitAccurate == Init /\ ~fastMath /\ ~ndebug
InitMath == Init /\ ~ndebug
InitAssert == Init /\ ~fastMath

\* ----------------------------------------------------- calls of the library
\* A call is made from the idle state and its result observed; Return goes
\* back to idle.
Idle == op = "none"
Rest == <<fastMath, buildVars, assertVars>>

Call_length ==
    /\ Idle
    /\ \E v \in Vec1 :
        /\ op' = "length" /\ x1' = v /\ resS' = length(v)
        /\ UNCHANGED <<resV, x2, s1, s2, Rest>>

Call_lengthSquared ==
    /\ Idle
    /\ \E v \in Vec1 :
        /\ op' = "lengthSquared" /\ x1' = v /\ resS' = lengthSquared(v)
        /\ UNCHANGED <<resV, x2, s1, s2, Rest>>

Call_normalize ==
    /\ Idle
    /\ \E v \in Vec1 :
        /\ op' = "normalize" /\ x1' = v /\ resV' \in normalize(v, fastMath)
        /\ UNCHANGED <<resS, x2, s1, s2, Rest>>

Call_dot ==
    /\ Idle
    /\ \E n \in Arity : \E v1 \in Vec(n, Dom(n)), v2 \in Vec(n, Dom(n)) :
        /\ op' = "dot" /\ x1' = v1 /\ x2' = v2 /\ resS' = dot(v1, v2)
        /\ UNCHANGED <<resV, s1, s2, Rest>>

Call_cross ==
    /\ Idle
    /\ \E v1 \in Vec(3, Mid), v2 \in Vec(3, Mid) :
        /\ op' = "cross" /\ x1' = v1 /\ x2' = v2 /\ resV' = cross(v1, v2)
        /\ UNCHANGED <<resS, s1, s2, Rest>>

Call_mod ==
    /\ Idle
    /\ \E n \in Arity : \E v \in Vec(n, ModDom(n)), a \in Divisors :
        /\ op' = "mod" /\ x1' = v /\ s1' = a /\ resV' = mod(v, a)
        /\ UNCHANGED <<resS, x2, s2, Rest>>

Call_min ==
    /\ Idle
    /\ \E n \in Arity : \E v1 \in Vec(n, Dom(n)), v2 \in Vec(n, Dom(n)) :
        /\ op' = "min" /\ x1' = v1 /\ x2' = v2 /\ resV' = min(v1, v2)
        /\ UNCHANGED <<resS, s1, s2, Rest>>

Call_max ==
    /\ Idle
    /\ \E n \in Arity : \E v1 \in Vec(n, Dom(n)), v2 \in Vec(n, Dom(n)) :
        /\ op' = "max" /\ x1' = v1 /\ x2' = v2 /\ resV' = max(v1, v2)
        /\ UNCHANGED <<resS, s1, s2, Rest>>

Call_clamp ==
    /\ Idle
    /\ \E n \in Arity :
         \E v \in Vec(n, ClampDom(n)), lo \in ClampBounds(n), hi \in ClampBounds(n) :
            /\ op' = "clamp" /\ x1' = v /\ s1' = lo /\ s2' = hi
            /\ resV' = clamp(v, lo, hi)
            /\ UNCHANGED <<resS, x2, Rest>>

Return ==
    /\ ~Idle
    /\ op' = "none" /\ x1' = NoVec /\ x2' = NoVec /\ s1' = 0 /\ s2' = 0
    /\ resS' = 0 /\ resV' = NoVec
    /\ UNCHANGED Rest

NextUnary == Call_length \/ Call_lengthSquared \/ Call_normalize \/ Return
SpecUnary == InitMath /\ [][NextUnary]_vars

NextBinary == Call_dot \/ Call_cross \/ Return
SpecBinary == InitAccurate /\ [][NextBinary]_vars

NextComb == Call_mod \/ Call_min \/ Call_max \/ Call_clamp \/ Return
SpecComb == InitAccurate /\ [][NextComb]_vars
\* ------------------------------------------------- building a program
\* The translation unit instantiates a template; a failed static_assert
\* fails the build.
Instantiate ==
    /\ phase = "compiling"
    /\ Cardinality(insts) < MaxInst
    /\ \E i \in Instantiations \ insts :
        /\ insts' = insts \cup {i}
        /\ phase' = IF WellFormed(i, fastMath) THEN "compiling" ELSE "failed"
    /\ UNCHANGED <<ran, vecVars, fastMath, assertVars>>

Link ==
    /\ phase = "compiling"
    /\ phase' = "built"
    /\ UNCHANGED <<insts, ran, vecVars, fastMath, assertVars>>

\* The built program calls an instantiated function and gets its result.
Run ==
    /\ phase = "built"
    /\ \E i \in insts \ ran : ran' = ran \cup {i}
    /\ UNCHANGED <<insts, phase, vecVars, fastMath, assertVars>>

NextBuild == Instantiate \/ Link \/ Run
SpecBuild == InitMath /\ [][NextBuild]_vars

\* ------------------------------------------------------------ vgd_assert
\* logError writes the report and a line end to std::cerr.
logError(r) == cerr' = Append(cerr, r)

\* Faulty variant: the constructor does not call logError.
AssertionFailureException_NoLog(e, f, l, m) ==
    /\ report' = Report(e, f, l, m)
    /\ UNCHANGED cerr

\* The constructor builds the report, then calls logError.
AssertionFailureException(e, f, l, m) ==
    /\ report' = Report(e, f, l, m)
    /\ logError(Report(e, f, l, m))

\* The statement vgd_assert(EXPRESSION, MESSAGE) at file:line. Under NDEBUG
\* it is ((void)0). Otherwise the expression is evaluated and, when false,
\* the exception object is constructed.
VgdAssert ==
    /\ pc = "idle"
    /\ evals < MaxEvals
    /\ \E e \in Expressions, m \in Messages, f \in Files, l \in Lines :
        /\ expr' = e[1] /\ cond' = e[2] /\ msg' = m /\ file' = f /\ line' = l
        /\ IF ndebug
           THEN pc' = "passed" /\ UNCHANGED <<evals, cerr, report, what>>
           ELSE /\ evals' = evals + 1
                /\ IF e[2]
                   THEN pc' = "passed" /\ UNCHANGED <<cerr, report, what>>
                   ELSE /\ AssertionFailureException(e[1], f, l, m)
                        /\ pc' = "constructed"
                        /\ UNCHANGED what
    /\ UNCHANGED <<ndebug, vecVars, fastMath, buildVars>>

\* The throw expression raises the constructed exception; what() is report.
Throw ==
    /\ pc = "constructed"
    /\ pc' = "thrown"
    /\ what' = report
    /\ UNCHANGED <<ndebug, expr, cond, msg, file, line, evals, cerr, report,
                   vecVars, fastMath, buildVars>>

\* Control goes on after the statement, or a handler catches the exception.
Resume ==
    /\ pc \in {"passed", "thrown"}
    /\ pc' = "idle" /\ expr' = "" /\ cond' = TRUE /\ msg' = "" /\ file' = ""
    /\ line' = 0 /\ report' = "" /\ what' = ""
    /\ UNCHANGED <<ndebug, evals, cerr, vecVars, fastMath, buildVars>>

NextAssert == VgdAssert \/ Throw \/ Resume
SpecAssert == InitAssert /\ [][NextAssert]_vars
\* ================================================================ claims
AllFinite(v) == \A f \in DOMAIN v : IsFinite(v[f])
NoNaN(v) == \A f \in DOMAIN v : ~IsNaN(v[f])
NonZero(v) == \E f \in DOMAIN v : v[f] # 0
VecNeg(v) == [f \in DOMAIN v |-> FNeg(v[f])]
\* l is 1 within TolEps machine epsilons (2^(1-Prec)); for the 24-bit float
\* that is 8 * 2^-23, about 1e-6.
NearOne(l) == IsFinite(l) /\ Abs(l - One) * 2^(Prec - 1) <= TolEps * One
\* x is a positive normal finite number: it neither overflowed nor underflowed.
NormalRange(x) == IsFinite(x) /\ x >= MinNormal

\* t occurs in s.
Contains(s, t) ==
    \E k \in 1..(Len(s) - Len(t) + 1) : SubSeq(s, k, k + Len(t) - 1) = t

GuardedOps == {"dot", "cross", "normalize", "length"}

\* C1: a program that instantiates dot, cross, normalize or length (any arity)
\* with a component type that is not IEC 559 fails to build, so that
\* instantiation never produces a runtime result.
C1_CompileTimeRejection ==
    \A i \in insts :
        (i[1] \in GuardedOps /\ ~is_iec559(i[3])) => (phase = "failed" /\ i \notin ran)
C1_Witness ==
    /\ phase = "failed"
    /\ \E i \in insts : i[1] = "normalize" /\ i[3] = "int"

\* C2 as stated: in accurate mode, for every non-zero vector v (read most
\* favourably: every component finite), length(normalize(v)) is 1 within the
\* tolerance.
C2_Original ==
    (op = "normalize" /\ ~fastMath /\ AllFinite(x1) /\ NonZero(x1))
        => NearOne(length(resV))
\* C2 amended: in accurate mode, for every vector v of finite components whose
\* lengthSquared(v) is a positive normal finite number (the sum of squares
\* neither overflows nor underflows), normalize(v) is v divided componentwise
\* by length(v) and its length is 1 within the tolerance.
C2_UnitLength ==
    (op = "normalize" /\ ~fastMath /\ AllFinite(x1) /\ NormalRange(lengthSquared(x1)))
        => /\ resV = VecDiv(x1, length(x1))
           /\ NearOne(length(resV))
C2_Witness ==
    /\ op = "normalize" /\ ~fastMath /\ Dim(x1) = 4
    /\ AllFinite(x1) /\ NormalRange(lengthSquared(x1))
    /\ x1.x = Third /\ x1.w = Whole(-1)
    /\ length(resV) # One /\ NearOne(length(resV))

\* C3 as stated: for every vector v, length(v) is sqrt(lengthSquared(v))
\* exactly and lengthSquared(v) >= 0.
C3_Original ==
    /\ op = "length" => resS = sqrt(lengthSquared(x1))
    /\ op = "lengthSquared" => FLe(0, resS)
\* C3 amended: for every vector v, length(v) is the same value as
\* sqrt(lengthSquared(v)); and for every v none of whose components is NaN,
\* lengthSquared(v) >= 0.
C3_LengthIsSqrt ==
    /\ op = "length" => resS = sqrt(lengthSquared(x1))
    /\ (op = "lengthSquared" /\ NoNaN(x1)) => FLe(0, resS)
C3_Witness ==
    /\ op = "length" /\ x1 = Vector2(Whole(3), Whole(4)) /\ resS = Whole(5)

\* C4: cross is anti-commutative: cross(v1, v2) is the componentwise negation
\* of cross(v2, v1) (a NaN component on one side is a NaN on the other), and
\* cross((1,0,0), (0,1,0)) is (0,0,1).
C4_AntiCommutative ==
    op = "cross" =>
        /\ resV = VecNeg(cross(x2, x1))
        /\ (x1 = Vector3(One, 0, 0) /\ x2 = Vector3(0, One, 0)) => resV = Vector3(0, 0, One)
C4_Witness ==
    /\ op = "cross" /\ x1 = Vector3(FNeg(Third), One, 0) /\ x2 = Vector3(0, FNeg(Third), One)
    /\ AllFinite(resV) /\ resV.x # 0 /\ resV.y # 0 /\ resV.z # 0

\* C5: dot is commutative for every arity: dot(v1, v2) and dot(v2, v1) are the
\* same value (NaN on one side is NaN on the other), and
\* dot((1,0,0), (0,1,0)) is 0.
C5_Commutative ==
    op = "dot" =>
        /\ resS = dot(x2, x1)
        /\ (x1 = Vector3(One, 0, 0) /\ x2 = Vector3(0, One, 0)) => resS = 0
C5_Witness ==
    /\ op = "dot" /\ Dim(x1) = 4 /\ x1 # x2 /\ IsFinite(resS) /\ resS # 0

\* C6: for every finite vector v and all scalars lo <= hi, every component of
\* clamp(v, lo, hi) lies in lo..hi, the same two bounds on every component.
C6_ClampInRange ==
    (op = "clamp" /\ AllFinite(x1) /\ FLe(s1, s2)) =>
        /\ DOMAIN resV = DOMAIN x1
        /\ \A f \in DOMAIN x1 : FLe(s1, resV[f]) /\ FLe(resV[f], s2)
C6_Witness ==
    /\ op = "clamp" /\ x1 = Vector2(Whole(-1), Whole(5))
    /\ s1 = 0 /\ s2 = Whole(3) /\ resV = Vector2(0, Whole(3))

\* C7: component i of mod(v, a) is the scalar modulo of v[i] by the one
\* divisor a, for every arity; mod((5,7,9), 3) is (2,1,0).
C7_ModBroadcast ==
    op = "mod" =>
        /\ DOMAIN resV = DOMAIN x1
        /\ \A f \in DOMAIN x1 : resV[f] = scalar_mod(x1[f], s1)
        /\ (x1 = Vector3(Whole(5), Whole(7), Whole(9)) /\ s1 = Whole(3))
              => resV = Vector3(Whole(2), Whole(1), 0)
C7_Witness ==
    /\ op = "mod" /\ x1 = Vector3(Whole(5), Whole(7), Whole(9)) /\ s1 = Whole(3)
    /\ resV = Vector3(Whole(2), Whole(1), 0)

\* C8: min and max are elementwise: component i of min(v1, v2) is the scalar
\* min of v1[i] and v2[i] alone, and component i of max(v1, v2) the scalar max
\* of v1[i] and v2[i] alone, for every arity.
C8_Elementwise ==
    /\ op = "min" =>
        /\ DOMAIN resV = DOMAIN x1
        /\ \A f \in DOMAIN x1 : resV[f] = scalar_min(x1[f], x2[f])
    /\ op = "max" =>
        /\ DOMAIN resV = DOMAIN x1
        /\ \A f \in DOMAIN x1 : resV[f] = scalar_max(x1[f], x2[f])
C8_Witness ==
    /\ op = "max" /\ Dim(x1) = 3 /\ AllFinite(x1) /\ AllFinite(x2)
    /\ resV.x = x1.x /\ resV.x # x2.x /\ resV.y = x2.y /\ resV.y # x1.y /\ resV.z # x2.z

\* C9: in a non-release build a false condition first writes the report to
\* the error stream and then raises the exception whose what() is that
\* report; a true condition does nothing; under NDEBUG nothing is evaluated,
\* written or raised.
C9_State ==
    /\ pc \in {"constructed", "thrown"} =>
          (~ndebug /\ ~cond /\ Len(cerr) > 0 /\ cerr[Len(cerr)] = report)
    /\ pc = "constructed" => what = ""
    /\ pc = "thrown" => what = report
    /\ pc = "passed" => ((ndebug \/ cond) /\ what = "")
    /\ ndebug => (evals = 0 /\ cerr = <<>> /\ what = "")
C9_Step ==
    /\ (pc = "idle" /\ pc' = "passed") => (cerr' = cerr /\ what' = what)
    /\ (pc = "idle" /\ pc' = "constructed") =>
          (evals' = evals + 1 /\ cerr' = Append(cerr, report') /\ what' = what)
    /\ (pc = "idle" /\ pc' = "passed" /\ ~ndebug) => evals' = evals + 1
    /\ (pc = "constructed" /\ pc' # pc) => (pc' = "thrown" /\ cerr' = cerr)
C9_Assert == [](C9_State) /\ [][C9_Step]_vars
C9_Witness ==
    /\ pc = "thrown" /\ ~ndebug /\ ~cond /\ what = report /\ cerr = <<report>>
    /\ expr = "x > 0" /\ msg = "bad x"

\* C10 as stated: the report of every failed assertion embeds the expression
\* text, the file, the line and the message.
C10_Original ==
    pc \in {"constructed", "thrown"} =>
        /\ Contains(report, expr)
        /\ Contains(report, file)
        /\ Contains(report, ToString(line))
        /\ Contains(report, msg)
\* C10 amended: the report of every failed assertion embeds the file, the
\* line and the message, and embeds the expression text unless that text is
\* exactly "false" or "0", when it reads "Unreachable code assertion" in the
\* expression's place.
C10_ReportEmbeds ==
    pc \in {"constructed", "thrown"} =>
        /\ Contains(report, " failed in file '" \o file \o "' line " \o ToString(line))
        /\ msg # "" => SubSeq(report, 1, Len(msg) + 2) = msg \o ": "
        /\ expr \notin {"false", "0"} => Contains(report, "Assertion '" \o expr \o "'")
        /\ expr \in {"false", "0"} =>
              Contains(report, "Unreachable code assertion failed in file '")
C10_Witness ==
    /\ pc = "thrown" /\ expr = "false" /\ msg = "bad x" /\ file = "a.cpp"
    /\ report = "bad x: Unreachable code assertion failed in file 'a.cpp' line 10"
====
